---- MODULE Spec2Model ----
(***************************************************************************)
(* A model of the blockifier entry-point execution utilities               *)
(* (crates/blockifier/src/execution/execution_utils.rs) and of the         *)
(* visited-program-counter trackers (crates/blockifier/src/state/          *)
(* visited_pcs.rs).                                                        *)
(***************************************************************************)
EXTENDS Integers, Sequences, FiniteSets, TLC

VARIABLES
    \* ---- visited_pcs.rs ----
    set_pcs,      \* VisitedPcsSet.0 : HashMap<ClassHash, HashSet<usize>>
    raw_pcs,      \* VisitedPcsRaw.0 : HashMap<ClassHash, Vec<Vec<usize>>>
    calls,        \* history of the insert calls made on the trackers
    set_iter,     \* what the last VisitedPcsSet::iter yielded (while it is borrowed)
    raw_iter,     \* what the last VisitedPcsRaw::iter yielded (while it is borrowed)
    \* ---- execute_deployment ----
    class_hash_at,   \* the state store's address -> class binding
    deploy_pc,       \* position inside execute_deployment
    deploy_args,     \* (deployed_contract_address, class_hash) of the running call
    observed,        \* what the running constructor read as its own class binding
    deploy_result,   \* result returned by the last execute_deployment
    constructor_result, \* result execute_constructor_entry_point returned to it
    deploys,         \* number of execute_deployment calls started
    \* ---- the machine at the end of a run (cairo_vm VirtualMachine) ----
    builtin_runners,    \* vm.get_builtin_runners(): the runners, in enumeration order
    stack,              \* the cells of the execution segment, from offset 0
    segment_used,       \* vm.get_segment_used_size: segment index -> used size
    \* ---- SyscallHintProcessor ----
    syscall_ptr,        \* the pointer the syscall handler last advanced to
    read_only_segments, \* ReadOnlySegments.0 : Vec<(Relocatable, usize)>
    returned,           \* the successful calls of ReadOnlySegments::allocate, in order:
                        \* the pointer returned, the length of the data given
    \* ---- a call of validate_run ----
    implicit_args,      \* the implicit_args argument
    implicit_args_end,  \* the implicit_args_end argument
    validate_result,    \* the value validate_run returned ("none" before the call)
    validate_checks,    \* the checks validate_run evaluated, in order
    \* ---- a call of ReadOnlySegments::validate on its own ----
    ro_result,          \* the value it returned ("none" before the call)
    \* ---- a call of execute_entry_point_call ----
    pc,                 \* the stage the call has reached
    num_segments,       \* the number of memory segments of the machine
    segments,           \* the cells of the data segments: segment index -> cells
    initial_syscall_ptr, \* ExecutionContext.initial_syscall_ptr
    accessed,           \* the (pointer, size) ranges marked as accessed
    call_result,        \* the value execute_entry_point_call returned
    call_entry_point,   \* the CallEntryPoint descriptor of the call
    call_args,          \* the input vector (args) prepare_call_arguments returned
    stages,             \* the stages of the call that ran, in order
    \* ---- the state store behind the syscall handler ----
    storage,            \* storage of the call's storage address: key -> value
    read_back,          \* the values State::get_storage_at returned after the call
    \* ---- a tree of nested entry-point calls ----
    frames,             \* the calls in progress, the root first; each with its stage
    tree_log            \* the stages entered in the whole tree, in order

trackerVars == <<set_pcs, raw_pcs, calls>>
iterVars == <<set_iter, raw_iter>>
deployVars == <<class_hash_at, deploy_pc, deploy_args, observed, deploy_result,
               constructor_result, deploys>>
vmVars == <<builtin_runners, stack, segment_used>>
handlerVars == <<syscall_ptr, read_only_segments>>
validateVars == <<implicit_args, implicit_args_end, validate_result, validate_checks>>
callVars == <<ro_result, pc, num_segments, segments, initial_syscall_ptr, accessed, call_result>>
ledgerVars == <<returned>>
descrVars == <<call_entry_point, call_args, stages>>
storeVars == <<storage, read_back>>
treeVars == <<frames, tree_log>>
\* The variables added to the state by the parts further down.
extVars == <<iterVars, ledgerVars, descrVars, storeVars, treeVars>>
vars == <<trackerVars, deployVars, vmVars, handlerVars, validateVars, callVars, extVars>>

Range(s) == {s[i] : i \in 1..Len(s)}

\* All sequences over S of length at most n.
SeqsUpTo(S, n) == UNION {[1..k -> S] : k \in 0..n}

(***************************************************************************)
(* Visited-PC trackers                                                     *)
(***************************************************************************)
MaxInserts == 2
MaxBatch == 2

ClassHashes == {"classA", "classB"}
Pcs == {10, 20, 30}
Batches == SeqsUpTo(Pcs, MaxBatch)

\* No iterator is alive: nothing has been yielded.
NoIter == [alive |-> FALSE, yields |-> <<>>]

\* What an iterator yields: the items, each with the number of times it is
\* yielded (the order of a HashMap's and a HashSet's iteration is unspecified).
Yields(items) == [alive |-> TRUE, yields |-> items]

\* Vec::from_iter(v.clone()) for a HashSet v: every element once, in an
\* unspecified order.
VecFromSet(v) == [x \in v |-> 1]

\* HashMap::entry(k).or_default(): the value held for k, or the default.
OrDefault(m, k, default) == IF k \in DOMAIN m THEN m[k] ELSE default

\* A buggy insert that replaces the class's set by the batch.
VisitedPcsSet_insert_overwrite(m, class_hash, pcs) ==
    [k \in DOMAIN m \cup {class_hash} |->
        IF k = class_hash THEN Range(pcs) ELSE m[k]]

\* VisitedPcsSet::insert: self.0.entry(*class_hash).or_default().extend(pcs)
VisitedPcsSet_insert(m, class_hash, pcs) ==
    [k \in DOMAIN m \cup {class_hash} |->
        IF k = class_hash
        THEN OrDefault(m, class_hash, {}) \cup Range(pcs)
        ELSE m[k]]

\* A buggy insert that flattens the batch into one entry per program counter.
VisitedPcsRaw_insert_flatten(m, class_hash, pcs) ==
    [k \in DOMAIN m \cup {class_hash} |->
        IF k = class_hash
        THEN OrDefault(m, class_hash, <<>>) \o [i \in 1..Len(pcs) |-> <<pcs[i]>>]
        ELSE m[k]]

\* A buggy insert that records nothing, not even the class, for an empty batch.
VisitedPcsRaw_insert_skip_empty(m, class_hash, pcs) ==
    IF pcs = <<>> THEN m
    ELSE [k \in DOMAIN m \cup {class_hash} |->
            IF k = class_hash
            THEN Append(OrDefault(m, class_hash, <<>>), pcs)
            ELSE m[k]]

\* VisitedPcsRaw::insert: self.0.entry(*class_hash).or_default().push(pcs.to_vec())
VisitedPcsRaw_insert(m, class_hash, pcs) ==
    [k \in DOMAIN m \cup {class_hash} |->
        IF k = class_hash
        THEN Append(OrDefault(m, class_hash, <<>>), pcs)
        ELSE m[k]]

\* VisitedPcsSet::iter, lines 36-38: one (class, Vec) pair per key of the map.
VisitedPcsSet_iter(m) ==
    [p \in {[class_hash |-> c, pcs |-> VecFromSet(m[c])] : c \in DOMAIN m} |-> 1]

\* A buggy iter that yields one pair per class, holding the first batch.
VisitedPcsRaw_iter_first_batch(m) ==
    [p \in {[class_hash |-> c, pcs |-> m[c][1]] : c \in DOMAIN m} |-> 1]

\* VisitedPcsRaw::iter, lines 67-69: for every key of the map, one
\* (class, batch) pair per element of its list.
VisitedPcsRaw_iter(m) ==
    [p \in UNION {{[class_hash |-> c, pcs |-> m[c][i]] : i \in 1..Len(m[c])}
                     : c \in DOMAIN m} |->
        Cardinality({i \in 1..Len(m[p.class_hash]) : m[p.class_hash][i] = p.pcs})]

\* VisitedPcsTrait::iter called on a tracker of each shape and run to its end.
Iter ==
    /\ ~set_iter.alive
    /\ set_iter' = Yields(VisitedPcsSet_iter(set_pcs))
    /\ raw_iter' = Yields(VisitedPcsRaw_iter(raw_pcs))
    /\ UNCHANGED <<trackerVars, deployVars, vmVars, handlerVars, validateVars, callVars>>
    /\ UNCHANGED <<ledgerVars, descrVars, storeVars, treeVars>>

\* VisitedPcsTrait::insert called with the same arguments on a tracker of each
\* shape (the trait is implemented by both, and a caller generic over the
\* trait drives whichever shape it holds).
Insert(class_hash, pcs) ==
    /\ Len(calls) < MaxInserts
    /\ set_pcs' = VisitedPcsSet_insert(set_pcs, class_hash, pcs)
    /\ raw_pcs' = VisitedPcsRaw_insert(raw_pcs, class_hash, pcs)
    /\ calls' = Append(calls, [class_hash |-> class_hash, pcs |-> pcs])
    /\ set_iter' = NoIter      \* insert takes &mut self: no iterator is alive
    /\ raw_iter' = NoIter
    /\ UNCHANGED <<deployVars, vmVars, handlerVars, validateVars, callVars>>
    /\ UNCHANGED <<ledgerVars, descrVars, storeVars, treeVars>>

TrackerInit ==
    /\ set_pcs = <<>>       \* VisitedPcsSet::new(): an empty map
    /\ raw_pcs = <<>>       \* VisitedPcsRaw::new(): an empty map
    /\ calls = <<>>

(***************************************************************************)
(* execute_deployment                                                      *)
(***************************************************************************)
MaxDeploys == 2

Addresses == {"addr1", "addr2"}
NoClass == "ClassHash::default"
NoArgs == [address |-> "none", class_hash |-> NoClass]

\* State::set_class_hash_at on the state handle: the binding after a
\* successful registration.
SetClassHashAt(store, address, class_hash) ==
    [store EXCEPT ![address] = class_hash]

\* A buggy execute_deployment that enters the constructor before the binding
\* is written.
ExecuteDeploymentRegister_late(address, class_hash, ok) ==
    /\ class_hash_at' = class_hash_at
    /\ deploy_pc' = "constructor"
    /\ deploy_result' = "pending"

\* execute_deployment, line 392: state.set_class_hash_at(address, class_hash)?
\* ok is the outcome of the state store's registration; on Err the `?`
\* returns the error and the constructor call below it is not reached.
ExecuteDeploymentRegister(address, class_hash, ok) ==
    IF ok
    THEN /\ class_hash_at' = SetClassHashAt(class_hash_at, address, class_hash)
         /\ deploy_pc' = "constructor"
         /\ deploy_result' = "pending"
    ELSE /\ class_hash_at' = class_hash_at
         /\ deploy_pc' = "returned"
         /\ deploy_result' = "Err(StateError)"

\* A call of execute_deployment up to the point where the constructor is
\* entered (or the registration error is returned).
ExecuteDeployment(address, class_hash, ok) ==
    /\ deploy_pc \in {"idle", "returned"}
    /\ deploys < MaxDeploys
    /\ deploys' = deploys + 1
    /\ deploy_args' = [address |-> address, class_hash |-> class_hash]
    /\ observed' = <<>>
    /\ constructor_result' = "none"
    /\ ExecuteDeploymentRegister(address, class_hash, ok)
    /\ UNCHANGED <<trackerVars, vmVars, handlerVars, validateVars, callVars, extVars>>

\* Inside execute_constructor_entry_point: the constructor queries the class
\* binding of its own address through the state store.
ConstructorReadsOwnClass ==
    /\ deploy_pc = "constructor"
    /\ Len(observed) < 1
    /\ observed' = Append(observed, class_hash_at[deploy_args.address])
    /\ UNCHANGED <<class_hash_at, deploy_pc, deploy_args, deploy_result, deploys>>
    /\ UNCHANGED constructor_result
    /\ UNCHANGED <<trackerVars, vmVars, handlerVars, validateVars, callVars, extVars>>

\* What execute_constructor_entry_point returns: the call's record, or the
\* error of the stage of the pipeline that failed (the builder's or the
\* assembler's, the machine's, the finalizer's).
ConstructorOutcomes ==
    {"Ok(CallInfo)", "Err(PreExecutionError)", "Err(VirtualMachineExecutionError)",
     "Err(PostExecutionError)"}

\* A buggy execute_deployment that takes the binding back when the
\* constructor fails.
ExecuteDeploymentTail_rolls_back(store, address, result) ==
    [class_hash_at |-> IF result = "Ok(CallInfo)" THEN store
                       ELSE [store EXCEPT ![address] = NoClass],
     result |-> result]

\* execute_deployment, lines 393-401: the call of
\* execute_constructor_entry_point is the tail expression; its result is the
\* function's result and no statement follows it.
ExecuteDeploymentTail(store, address, result) ==
    [class_hash_at |-> store, result |-> result]

\* execute_constructor_entry_point returns to execute_deployment, which
\* returns.
ConstructorReturns(outcome) ==
    /\ deploy_pc = "constructor"
    /\ deploy_pc' = "returned"
    /\ constructor_result' = outcome
    /\ LET tail == ExecuteDeploymentTail(class_hash_at, deploy_args.address, outcome) IN
          /\ class_hash_at' = tail.class_hash_at
          /\ deploy_result' = tail.result
    /\ UNCHANGED <<deploy_args, observed, deploys>>
    /\ UNCHANGED <<trackerVars, vmVars, handlerVars, validateVars, callVars, extVars>>

DeployInit ==
    /\ class_hash_at = [a \in Addresses |-> NoClass]
    /\ deploy_pc = "idle"
    /\ deploy_args = NoArgs
    /\ observed = <<>>
    /\ deploy_result = "none"
    /\ constructor_result = "none"
    /\ deploys = 0

(***************************************************************************)
(* The machine: cells, pointers, segments                                  *)
(***************************************************************************)
MaxBuiltins == 2
MaxUsed == 1

\* MaybeRelocatable: an integer cell, a relocatable pointer; NoCell is an
\* address that was never written.
IntCell(n) == [kind |-> "int", seg |-> 0, off |-> n]
Rel(s, o) == [kind |-> "rel", seg |-> s, off |-> o]
NoCell == [kind |-> "none", seg |-> 0, off |-> 0]

\* Segment 0 holds the program and segment 1 the execution stack
\* (runner.initialize_segments); initialize_builtins gives each builtin
\* runner its own segment, and the builder then adds the syscall segment.
ExecutionSegment == 1
BuiltinBase(i) == ExecutionSegment + i
SyscallSegment(nb) == ExecutionSegment + nb + 1
CalldataSegment(nb) == ExecutionSegment + nb + 2

\* vm.get_builtin_runners() for a program with nb builtins.
Runners(nb) == [i \in 1..nb |-> [base |-> BuiltinBase(i)]]

\* Results: Ok(()) or an error of PostExecutionError.
Ok == [kind |-> "Ok", label |-> ""]
SecurityValidationError(label) == [kind |-> "SecurityValidationError", label |-> label]
\* An error of the machine's, converted by `?` (From) and carrying no label.
RunnerError == [kind |-> "RunnerError", label |-> ""]
MathError == [kind |-> "MathError", label |-> ""]
VirtualMachineError == [kind |-> "VirtualMachineError", label |-> ""]
NoResult == [kind |-> "none", label |-> ""]

\* The cell at an address: a cell of the execution segment, a cell of a data
\* segment, or nothing.
MemoryAt(ptr) ==
    IF ptr.seg = ExecutionSegment
    THEN IF ptr.off < Len(stack) THEN stack[ptr.off + 1] ELSE NoCell
    ELSE IF ptr.seg \in DOMAIN segments /\ ptr.off < Len(segments[ptr.seg])
    THEN segments[ptr.seg][ptr.off + 1]
    ELSE NoCell

\* builtin_runner.final_stack(vm, pointer): the stop pointer stored just below
\* `pointer` must be a pointer to the end of the used part of the runner's
\* segment; the pointer below it is returned.
FinalStack(runner, pointer) ==
    IF pointer.off = 0 THEN [ok |-> FALSE, ptr |-> pointer]
    ELSE LET stop == MemoryAt(Rel(pointer.seg, pointer.off - 1)) IN
         IF stop.kind # "rel" THEN [ok |-> FALSE, ptr |-> pointer]
         ELSE IF stop.seg # runner.base THEN [ok |-> FALSE, ptr |-> pointer]
         ELSE IF stop.off # segment_used[runner.base] THEN [ok |-> FALSE, ptr |-> pointer]
         ELSE [ok |-> TRUE, ptr |-> Rel(pointer.seg, pointer.off - 1)]

\* validate_run, lines 210-214: the loop over the runners in reverse
\* enumeration order, from runner k down to runner 1.
RECURSIVE BuiltinsFinalStack(_, _)
BuiltinsFinalStack(pointer, k) ==
    IF k = 0 THEN [ok |-> TRUE, ptr |-> pointer]
    ELSE LET r == FinalStack(builtin_runners[k], pointer) IN
         IF r.ok THEN BuiltinsFinalStack(r.ptr, k - 1) ELSE r

\* SyscallHintProcessor::verify_syscall_ptr: the pointer must be the one the
\* handler last advanced to.
VerifySyscallPtr(ptr) == ptr = syscall_ptr

\* A buggy validation that only rejects a segment used less than declared.
ReadOnlySegments_validate_only_short(ledger) ==
    IF \E i \in 1..Len(ledger) : ledger[i].size > segment_used[ledger[i].ptr.seg]
    THEN SecurityValidationError("Read-only segments")
    ELSE Ok

\* ReadOnlySegments::validate, lines 353-368: the first entry whose used size
\* differs from its declared size fails the validation.
ReadOnlySegments_validate(ledger) ==
    IF \E i \in 1..Len(ledger) : ledger[i].size # segment_used[ledger[i].ptr.seg]
    THEN SecurityValidationError("Read-only segments")
    ELSE Ok

CheckOrder ==
    << "Builtin final stacks", "Implicit arguments' segments", "Syscall segment start",
       "Syscall segment size", "Syscall segment end", "Read-only segments" >>

Checked(n) == SubSeq(CheckOrder, 1, n)

\* A buggy tail that validates the read-only segments before asking the
\* syscall handler.
ValidateSyscallEnd_readonly_first(syscall_end_ptr) ==
    IF ReadOnlySegments_validate(read_only_segments) # Ok
    THEN [result |-> ReadOnlySegments_validate(read_only_segments),
          checks |-> Checked(4) \o <<"Read-only segments">>]
    ELSE IF ~VerifySyscallPtr(syscall_end_ptr)
    THEN [result |-> SecurityValidationError("Syscall segment end"),
          checks |-> Checked(4) \o <<"Read-only segments", "Syscall segment end">>]
    ELSE [result |-> Ok,
          checks |-> Checked(4) \o <<"Read-only segments", "Syscall segment end">>]

\* A buggy tail that returns the syscall handler's own error as it is.
ValidateSyscallEnd_unlabelled(syscall_end_ptr) ==
    IF ~VerifySyscallPtr(syscall_end_ptr)
    THEN [result |-> VirtualMachineError, checks |-> Checked(5)]
    ELSE [result |-> ReadOnlySegments_validate(read_only_segments),
          checks |-> Checked(6)]

\* validate_run, lines 245-250: the syscall segment end, then the read-only
\* segments.
ValidateSyscallEnd(syscall_end_ptr) ==
    IF ~VerifySyscallPtr(syscall_end_ptr)
    THEN [result |-> SecurityValidationError("Syscall segment end"),
          checks |-> Checked(5)]
    ELSE [result |-> ReadOnlySegments_validate(read_only_segments),
          checks |-> Checked(6)]

\* A buggy size check that only rejects an end pointer beyond the used size.
ValidateSyscallSize_only_larger(syscall_start_ptr, implicit_args_start) ==
    LET syscall_end_ptr == MemoryAt(implicit_args_start) IN
    IF syscall_end_ptr.kind # "rel"
    THEN [result |-> VirtualMachineError, checks |-> Checked(4)]
    ELSE IF \/ syscall_end_ptr.seg # syscall_start_ptr.seg
            \/ syscall_end_ptr.off >
                  syscall_start_ptr.off + segment_used[syscall_start_ptr.seg]
    THEN [result |-> SecurityValidationError("Syscall segment size"),
          checks |-> Checked(4)]
    ELSE ValidateSyscallEnd(syscall_end_ptr)

\* validate_run, lines 234-243: the syscall segment size.
ValidateSyscallSize(syscall_start_ptr, implicit_args_start) ==
    LET syscall_end_ptr == MemoryAt(implicit_args_start) IN
    IF syscall_end_ptr.kind # "rel"                        \* vm.get_relocatable(..)?
    THEN [result |-> VirtualMachineError, checks |-> Checked(4)]
    ELSE IF Rel(syscall_start_ptr.seg,
                syscall_start_ptr.off + segment_used[syscall_start_ptr.seg])
            # syscall_end_ptr
    THEN [result |-> SecurityValidationError("Syscall segment size"),
          checks |-> Checked(4)]
    ELSE ValidateSyscallEnd(syscall_end_ptr)

\* A buggy start check that never looks at the offset.
ValidateSyscallStart_no_offset_check(args, implicit_args_start) ==
    IF args[1].kind # "rel"
    THEN [result |-> VirtualMachineError, checks |-> Checked(3)]
    ELSE ValidateSyscallSize(args[1], implicit_args_start)

\* validate_run, lines 225-232: the syscall segment start.
ValidateSyscallStart(args, implicit_args_start) ==
    LET syscall_start_ptr == args[1] IN                    \* implicit_args.first()
    IF syscall_start_ptr.kind # "rel"                      \* Relocatable::try_from(..)?
    THEN [result |-> VirtualMachineError, checks |-> Checked(3)]
    ELSE IF syscall_start_ptr.off # 0
    THEN [result |-> SecurityValidationError("Syscall segment start"),
          checks |-> Checked(3)]
    ELSE ValidateSyscallSize(syscall_start_ptr, implicit_args_start)

\* A buggy bounds check that only rejects an implicit region that grew.
ValidateImplicitArgs_only_grown(args, args_end, current_builtin_ptr) ==
    IF current_builtin_ptr.off = 0
    THEN [result |-> MathError, checks |-> Checked(2)]
    ELSE
    LET implicit_args_start == Rel(current_builtin_ptr.seg, current_builtin_ptr.off - 1) IN
    IF implicit_args_start.off + Len(args) < args_end.off
    THEN [result |-> SecurityValidationError("Implicit arguments' segments"),
          checks |-> Checked(2)]
    ELSE ValidateSyscallStart(args, implicit_args_start)

\* A buggy bounds check whose pointer subtraction stops at offset 0 instead
\* of failing.
ValidateImplicitArgs_saturating_sub(args, args_end, current_builtin_ptr) ==
    LET implicit_args_start ==
            Rel(current_builtin_ptr.seg,
                IF current_builtin_ptr.off = 0 THEN 0 ELSE current_builtin_ptr.off - 1) IN
    IF Rel(implicit_args_start.seg, implicit_args_start.off + Len(args)) # args_end
    THEN [result |-> SecurityValidationError("Implicit arguments' segments"),
          checks |-> Checked(2)]
    ELSE ValidateSyscallStart(args, implicit_args_start)

\* validate_run, lines 216-223: the implicit arguments' bounds.
ValidateImplicitArgs(args, args_end, current_builtin_ptr) ==
    IF current_builtin_ptr.off = 0                         \* sub_usize(1)?
    THEN [result |-> MathError, checks |-> Checked(2)]
    ELSE
    LET implicit_args_start == Rel(current_builtin_ptr.seg, current_builtin_ptr.off - 1) IN
    IF Rel(implicit_args_start.seg, implicit_args_start.off + Len(args)) # args_end
    THEN [result |-> SecurityValidationError("Implicit arguments' segments"),
          checks |-> Checked(2)]
    ELSE ValidateSyscallStart(args, implicit_args_start)

\* validate_run, lines 203-251: the result returned and the checks evaluated.
\* The error of a runner's final_stack is returned by `?` as it is.
ValidateRun(args, args_end) ==
    LET walk == BuiltinsFinalStack(args_end, Len(builtin_runners)) IN
    IF ~walk.ok
    THEN [result |-> RunnerError, checks |-> Checked(1)]
    ELSE ValidateImplicitArgs(args, args_end, walk.ptr)

\* A call of validate_run on the machine's final state.
ValidateRunCall ==
    /\ validate_result = NoResult
    /\ LET r == ValidateRun(implicit_args, implicit_args_end) IN
          /\ validate_result' = r.result
          /\ validate_checks' = r.checks
    /\ UNCHANGED <<implicit_args, implicit_args_end>>
    /\ UNCHANGED <<trackerVars, deployVars, vmVars, handlerVars, callVars, extVars>>

\* The values a program may leave in the stack slot that an honest run fills
\* with a pointer into segment s: nothing, an integer, a pointer into s at
\* any offset, or a pointer into another segment.
SlotCells(s) ==
    {NoCell, IntCell(0), Rel(s + 1, 0)} \cup {Rel(s, o) : o \in 0..MaxUsed}

\* The honest layout below implicit_args_end: the syscall end pointer at
\* offset 0, then one stop pointer per builtin runner, in enumeration order.
SlotSegment(nb, offset) ==
    IF offset = 0 THEN SyscallSegment(nb) ELSE BuiltinBase(offset)

FinalStacks(nb) ==
    UNION {{st \in [1..n -> UNION {SlotCells(SlotSegment(nb, o)) : o \in 0..nb}] :
                \A p \in 1..n : st[p] \in SlotCells(SlotSegment(nb, p - 1))}
           : n \in 0..(nb + 1)}

\* The sizes the machine may record: every builtin segment used MaxUsed
\* cells; the syscall segment and the calldata segment any size.
UsedSizes(nb) ==
    {[s \in 0..CalldataSegment(nb) |->
        IF s = SyscallSegment(nb) THEN su
        ELSE IF s = CalldataSegment(nb) THEN cu
        ELSE IF s \in {BuiltinBase(i) : i \in 1..nb} THEN MaxUsed
        ELSE 0] :
        su \in 0..MaxUsed, cu \in 0..(MaxUsed + 1)}

\* The implicit arguments passed in: the syscall pointer (or a forged first
\* element) followed by initial stack pointers, n elements in all.
ImplicitArgs(nb) ==
    {[i \in 1..n |-> IF i = 1 THEN first ELSE Rel(BuiltinBase(i - 1), 0)] :
        n \in (IF nb = 0 THEN 1 ELSE nb)..(nb + 2),
        first \in {Rel(SyscallSegment(nb), 0), Rel(SyscallSegment(nb), 1), IntCell(0)}}

ValidateInit ==
    \E nb \in 0..MaxBuiltins :
        /\ builtin_runners = Runners(nb)
        /\ stack \in FinalStacks(nb)
        /\ implicit_args_end = Rel(ExecutionSegment, Len(stack))
        /\ segment_used \in UsedSizes(nb)
        /\ syscall_ptr \in {Rel(SyscallSegment(nb), o) : o \in 0..MaxUsed}
        /\ read_only_segments =
              << [ptr |-> Rel(CalldataSegment(nb), 0), size |-> MaxUsed] >>
        /\ implicit_args \in ImplicitArgs(nb)
        /\ validate_result = NoResult
        /\ validate_checks = <<>>
        /\ num_segments = CalldataSegment(nb) + 1
        /\ initial_syscall_ptr = implicit_args[1]

\* No machine, no call: the state of the variables above in the
\* specifications that do not use them.
ValidateIdle ==
    /\ implicit_args = <<>>
    /\ implicit_args_end = NoCell
    /\ validate_result = NoResult
    /\ validate_checks = <<>>

MachineIdle ==
    /\ builtin_runners = <<>>
    /\ stack = <<>>
    /\ segment_used = <<>>
    /\ syscall_ptr = NoCell
    /\ read_only_segments = <<>>
    /\ num_segments = 0
    /\ initial_syscall_ptr = NoCell

CallIdle ==
    /\ ro_result = NoResult
    /\ pc = "idle"
    /\ segments = <<>>
    /\ accessed = <<>>
    /\ call_result = [kind |-> "none", label |-> "", retdata |-> <<>>]

(***************************************************************************)
(* ReadOnlySegments                                                        *)
(***************************************************************************)
MaxLedger == 2
MaxData == 3

\* The data handed to allocate: n integer cells.
Data(n) == [i \in 1..n |-> IntCell(i)]

\* vm.add_memory_segment() followed by vm.load_data(ptr, data): a new segment
\* whose used size is the length of the data.
AddSegmentWith(used, size) ==
    [s \in 0..num_segments |-> IF s = num_segments THEN size ELSE used[s]]

\* vm.add_memory_segment(): the pointer to the start of a new segment.
AddMemorySegment == Rel(num_segments, 0)

\* A buggy allocate that keeps only the newest entry in the ledger.
ReadOnlySegments_allocate_newest_only(ledger, data) ==
    << [ptr |-> AddMemorySegment, size |-> Len(data)] >>

\* ReadOnlySegments::allocate, lines 342-351: the ledger after the push of
\* (segment_start_ptr, data.len()).
ReadOnlySegments_allocate(ledger, data) ==
    Append(ledger, [ptr |-> AddMemorySegment, size |-> Len(data)])

\* ReadOnlySegments::allocate, line 350: Ok(segment_start_ptr), noted with
\* the length of the data given and the number of segments before the call.
Returned(data) ==
    [ptr |-> AddMemorySegment, len |-> Len(data), segments_before |-> num_segments]

\* A collaborator allocates a read-only buffer in the machine.
Allocate(data) ==
    /\ ro_result = NoResult
    /\ Len(read_only_segments) < MaxLedger
    /\ read_only_segments' = ReadOnlySegments_allocate(read_only_segments, data)
    /\ segment_used' = AddSegmentWith(segment_used, Len(data))
    /\ num_segments' = num_segments + 1
    /\ UNCHANGED <<builtin_runners, stack, syscall_ptr, initial_syscall_ptr>>
    /\ UNCHANGED <<ro_result, pc, segments, accessed, call_result>>
    /\ returned' = Append(returned, Returned(data))
    /\ UNCHANGED <<trackerVars, deployVars, validateVars>>
    /\ UNCHANGED <<iterVars, descrVars, storeVars, treeVars>>

\* The running program writes one cell past the end of a ledgered segment.
ExtraWrite(i) ==
    /\ ro_result = NoResult
    /\ i \in 1..Len(read_only_segments)
    /\ segment_used[read_only_segments[i].ptr.seg] <= read_only_segments[i].size
    /\ segment_used' =
          [segment_used EXCEPT ![read_only_segments[i].ptr.seg] = @ + 1]
    /\ UNCHANGED <<builtin_runners, stack, handlerVars, validateVars>>
    /\ UNCHANGED <<trackerVars, deployVars, callVars, extVars>>

\* A call of ReadOnlySegments::validate.
ReadOnlyValidateCall ==
    /\ ro_result = NoResult
    /\ ro_result' = ReadOnlySegments_validate(read_only_segments)
    /\ UNCHANGED <<pc, num_segments, segments, initial_syscall_ptr, accessed, call_result>>
    /\ UNCHANGED <<trackerVars, deployVars, vmVars, handlerVars, validateVars, extVars>>

\* A machine with its program, execution and syscall segments and an empty
\* ledger.
ReadOnlyInit ==
    /\ builtin_runners = <<>>
    /\ stack = <<>>
    /\ num_segments = SyscallSegment(0) + 1
    /\ segment_used = [s \in 0..SyscallSegment(0) |-> 0]
    /\ initial_syscall_ptr = Rel(SyscallSegment(0), 0)
    /\ syscall_ptr = Rel(SyscallSegment(0), 0)
    /\ read_only_segments = <<>>

(***************************************************************************)
(* execute_entry_point_call                                                *)
(***************************************************************************)
MaxRetdata == 3

CallResult(kind, label, retdata) == [kind |-> kind, label |-> label, retdata |-> retdata]
CallError(e) == CallResult(e.kind, e.label, <<>>)
NoCallResult == CallResult("none", "", <<>>)

\* Felt::bits(): the number of bits needed to write n.
RECURSIVE Bits(_)
Bits(n) == IF n = 0 THEN 0 ELSE 1 + Bits(n \div 2)

\* format!("{:#x}", ..): the hexadecimal digits of n, most significant first.
RECURSIVE HexDigits(_)
HexDigits(n) == IF n < 16 THEN <<n>> ELSE Append(HexDigits(n \div 16), n % 16)

\* StarkFelt::try_from("0x.."): the value the digits denote.
RECURSIVE FromHexDigits(_)
FromHexDigits(ds) ==
    IF Len(ds) = 0 THEN 0
    ELSE 16 * FromHexDigits(SubSeq(ds, 1, Len(ds) - 1)) + ds[Len(ds)]

\* felt_to_stark_felt, lines 42-45.
FeltToStarkFelt(n) == FromHexDigits(HexDigits(n))

\* The call descriptor before the call is assembled.
NoCallEntryPoint == [entry_point_selector |-> 0, calldata |-> <<>>]

\* The entry-point selectors and the calldata of the calls made.
Selectors == {5, 300}
Calldata(n) == [i \in 1..n |-> 254 + i]

\* StarkFelt::bytes(): the w big-endian bytes of n.
FeltBytes == 32
RECURSIVE BytesBe(_, _)
BytesBe(n, w) == IF w = 0 THEN <<>> ELSE Append(BytesBe(n \div 256, w - 1), n % 256)

\* Felt::from_bytes_be: the value the big-endian bytes denote.
RECURSIVE FromBytesBe(_)
FromBytesBe(bs) ==
    IF Len(bs) = 0 THEN 0
    ELSE 256 * FromBytesBe(SubSeq(bs, 1, Len(bs) - 1)) + bs[Len(bs)]

\* stark_felt_to_felt, lines 38-40.
StarkFeltToFelt(v) == FromBytesBe(BytesBe(v, FeltBytes))

\* The outcomes of building the execution context: success, or the error of
\* line 62 (get_contract_class), line 65 (resolve_entry_point_pc), line 68
\* (convert_program_to_cairo_runner_format), line 69 (CairoRunner::new) or
\* line 71 (initialize_builtins).
BuilderOutcomes ==
    {"Ok", "StateError", "EntryPointNotFound", "DuplicateEntryPoint",
     "ProgramError", "RunnerError"}

\* A buggy builder that sets up the machine's segments before resolving the
\* class and the entry point.
BuilderSegments_before_resolution(nb, outcome) == ExecutionSegment + nb + 2

\* initialize_execution_context: the number of segments of the machine when
\* the builder returns.  The program segment and the execution segment
\* (initialize_segments, line 72), one segment per builtin runner, and the
\* syscall segment (line 75) exist only once lines 62-71 have all succeeded.
BuilderSegments(nb, outcome) ==
    IF outcome = "Ok" THEN ExecutionSegment + nb + 2 ELSE num_segments

\* initialize_execution_context, lines 55-86: the runners of the program's nb
\* builtins, the machine's segments, and one more segment for the syscalls.
\* Every `?` of lines 62-71 returns before a segment exists: the segments are
\* made by initialize_segments (line 72) and add_memory_segment (line 75).
InitializeExecutionContext(nb, outcome) ==
    /\ pc = "start"
    /\ stages' = Append(stages, "initialize_execution_context")
    /\ IF outcome = "Ok"
       THEN /\ builtin_runners' = Runners(nb)
            /\ initial_syscall_ptr' = Rel(ExecutionSegment + nb + 1, 0)
            /\ syscall_ptr' = Rel(ExecutionSegment + nb + 1, 0)
            /\ pc' = "built"
            /\ call_result' = call_result
       ELSE /\ pc' = "returned"
            /\ call_result' = CallResult("PreExecutionError", outcome, <<>>)
            /\ UNCHANGED <<builtin_runners, initial_syscall_ptr, syscall_ptr>>
    /\ num_segments' = BuilderSegments(nb, outcome)
    /\ UNCHANGED <<stack, segment_used, read_only_segments, validateVars>>
    /\ UNCHANGED <<ro_result, segments, accessed>>
    /\ UNCHANGED <<trackerVars, deployVars>>
    /\ UNCHANGED <<iterVars, ledgerVars, call_entry_point, call_args, storeVars, treeVars>>

\* A buggy assembler that pushes the syscall pointer after the builtins'
\* initial stacks.
PrepareImplicitArgs_builtins_first ==
    [i \in 1..Len(builtin_runners) |-> Rel(builtin_runners[i].base, 0)] \o <<initial_syscall_ptr>>

\* prepare_call_arguments, lines 101-108: the syscall pointer, then the
\* initial stack of every builtin runner.
PrepareImplicitArgs ==
    <<initial_syscall_ptr>> \o [i \in 1..Len(builtin_runners) |-> Rel(builtin_runners[i].base, 0)]

\* A buggy assembler that pushes the calldata pointer before its length.
PrepareArgs_pointer_before_length(selector, implicits, calldata, calldata_start_ptr) ==
    << IntCell(StarkFeltToFelt(selector)), implicits,
       calldata_start_ptr, IntCell(Len(calldata)) >>

\* prepare_call_arguments, lines 94-118: the four pushes onto args.
PrepareArgs(selector, implicits, calldata, calldata_start_ptr) ==
    << IntCell(StarkFeltToFelt(selector)), implicits,
       IntCell(Len(calldata)), calldata_start_ptr >>

\* prepare_call_arguments, lines 112-114: the calldata as integer cells.
CalldataCells(calldata) ==
    [i \in 1..Len(calldata) |-> IntCell(StarkFeltToFelt(calldata[i]))]

\* prepare_call_arguments, lines 88-121.  ok is the outcome of vm.load_data
\* inside allocate (line 349): on Err the `?` of line 117 returns the error,
\* after the segment was added and its entry pushed.
PrepareCallArguments(selector, calldata, ok) ==
    /\ pc = "built"
    /\ stages' = Append(stages, "prepare_call_arguments")
    /\ call_entry_point' = [entry_point_selector |-> selector, calldata |-> calldata]
    /\ read_only_segments' =
          ReadOnlySegments_allocate(read_only_segments, CalldataCells(calldata))
    /\ num_segments' = num_segments + 1
    /\ IF ok
       THEN /\ implicit_args' = PrepareImplicitArgs
            /\ call_args' = PrepareArgs(selector, PrepareImplicitArgs,
                                        CalldataCells(calldata), AddMemorySegment)
            /\ segments' = (num_segments :> CalldataCells(calldata))
            /\ returned' = Append(returned, Returned(CalldataCells(calldata)))
            /\ pc' = "assembled"
            /\ call_result' = call_result
       ELSE /\ pc' = "returned"
            /\ call_result' = CallResult("PreExecutionError", "MemoryError", <<>>)
            /\ UNCHANGED <<implicit_args, call_args, segments, returned>>
    /\ UNCHANGED <<builtin_runners, stack, segment_used, syscall_ptr, initial_syscall_ptr>>
    /\ UNCHANGED <<implicit_args_end, validate_result, validate_checks>>
    /\ UNCHANGED <<ro_result, accessed>>
    /\ UNCHANGED <<trackerVars, deployVars>>
    /\ UNCHANGED <<iterVars, storeVars, treeVars>>

\* What an honest run leaves below the return values: the syscall end pointer
\* and the stop pointer of every builtin runner.
HonestStack(nb, used) ==
    [p \in 1..(nb + 1) |->
        Rel(SlotSegment(nb, p - 1), used[SlotSegment(nb, p - 1)])]

\* The stacks a program may leave: the honest one, or the honest one with one
\* slot overwritten.
ProgramStacks(nb, used) ==
    {HonestStack(nb, used)} \cup
    {[HonestStack(nb, used) EXCEPT ![p] = c] :
        p \in 1..(nb + 1), c \in UNION {SlotCells(SlotSegment(nb, o)) : o \in 0..nb}}

\* The used sizes at the end of a run that also allocated a return-data
\* segment of n cells: the builtin segments hold MaxUsed cells, the syscall
\* segment up to MaxUsed, the calldata segment its data or one cell more.
RunUsedSizes(nb, n) ==
    {[s \in 0..num_segments |->
        IF s = SyscallSegment(nb) THEN su
        ELSE IF s = CalldataSegment(nb) THEN Len(segments[s]) + extra
        ELSE IF s \in {BuiltinBase(i) : i \in 1..nb} THEN MaxUsed
        ELSE IF s = num_segments THEN n
        ELSE 0] :
        su \in 0..MaxUsed, extra \in 0..1}

\* The return-data segment a program may leave: n integer cells, or n cells
\* one of which holds a pointer.
RetdataSegments(n) ==
    LET ints == [i \in 1..n |-> IntCell(16 + i)] IN
    {ints} \cup {[ints EXCEPT ![p] = Rel(ExecutionSegment, 0)] : p \in 1..n}

\* The return-data length register a program may leave: a length, or a
\* pointer.
RetdataSizes ==
    {IntCell(size) : size \in 0..MaxRetdata} \cup {Rel(ExecutionSegment, 0)}

\* A buggy call that goes on to finalization after a machine fault.
AfterRun_salvage(fault) == "ran"

\* execute_entry_point_call, lines 145-151: run_entry_point(..)? returns the
\* machine's fault from the call; otherwise the call goes on to line 153.
AfterRun(fault) == IF fault THEN "returned" ELSE "ran"

\* run_entry_point, lines 161-178: the machine runs the program to its end
\* or faults.  The program chooses what it leaves: the stack, the sizes of
\* the segments, the return-data segment, the claimed return-data length; the
\* syscall handler has advanced its pointer by the syscalls it served.  The
\* program tampers with the implicit-argument slots or with the return data.
RunEntryPoint(fault) ==
    /\ pc = "assembled"
    /\ stages' = Append(stages, "run_entry_point")
    /\ pc' = AfterRun(fault)
    /\ IF fault
       THEN /\ call_result' = CallResult("VirtualMachineExecutionError", "", <<>>)
            /\ UNCHANGED <<stack, segment_used, num_segments, segments, syscall_ptr>>
       ELSE \E n \in 0..MaxRetdata, sizecell \in RetdataSizes :
            \E cells \in RetdataSegments(n) :
            \E used \in RunUsedSizes(Len(builtin_runners), n) :
            \E st \in ProgramStacks(Len(builtin_runners), used) :
            \E o \in 0..MaxUsed :
               /\ \/ st = HonestStack(Len(builtin_runners), used)
                  \/ (sizecell.kind = "int" /\ \A i \in 1..n : cells[i].kind = "int")
               /\ stack' = st \o <<sizecell, Rel(num_segments, 0)>>
               /\ segment_used' = used
               /\ segments' = segments @@ (num_segments :> cells)
               /\ num_segments' = num_segments + 1
               /\ syscall_ptr' = Rel(initial_syscall_ptr.seg, o)
               /\ call_result' = call_result
    /\ UNCHANGED <<builtin_runners, read_only_segments, initial_syscall_ptr>>
    /\ UNCHANGED <<validateVars, ro_result, accessed>>
    /\ UNCHANGED <<trackerVars, deployVars>>
    /\ UNCHANGED <<iterVars, ledgerVars, call_entry_point, call_args, storeVars, treeVars>>

\* A buggy decoding that keeps the last hexadecimal digit of the value only.
GetFeltFromMemoryCell_last_digit(cell) ==
    IF cell.kind = "int" THEN [ok |-> TRUE, value |-> cell.off % 16]
    ELSE [ok |-> FALSE, value |-> 0]

\* get_felt_from_memory_cell, lines 327-335.
GetFeltFromMemoryCell(cell) ==
    IF cell.kind = "int" THEN [ok |-> TRUE, value |-> FeltToStarkFelt(cell.off)]
    ELSE [ok |-> FALSE, value |-> 0]

\* felt_range, lines 267-277: the cells of the range, each decoded.
FeltRange(ptr, size) ==
    IF \/ ptr.kind # "rel"
       \/ \E i \in 0..(size - 1) : MemoryAt(Rel(ptr.seg, ptr.off + i)) = NoCell
       \/ \E i \in 0..(size - 1) :
             ~GetFeltFromMemoryCell(MemoryAt(Rel(ptr.seg, ptr.off + i))).ok
    THEN [ok |-> FALSE, values |-> <<>>]
    ELSE [ok |-> TRUE,
          values |-> [i \in 1..size |->
                        GetFeltFromMemoryCell(MemoryAt(Rel(ptr.seg, ptr.off + i - 1))).value]]

\* read_execution_retdata, lines 253-265.
ReadExecutionRetdata(retdata_size, retdata_ptr) ==
    IF retdata_size.kind # "int"
    THEN [ok |-> FALSE, values |-> <<>>]
    ELSE FeltRange(retdata_ptr, Bits(retdata_size.off))

\* ReadOnlySegments::mark_as_accessed, lines 370-376: the ranges handed to
\* vm.mark_address_range_as_accessed, one per ledger entry.
MarkAsAccessed(ledger) == ledger

\* A buggy finalizer that goes on after a failed validation as after a
\* warning.
FinalizeTail_downgrades_failure(v, retdata) ==
    [accessed |-> accessed \o MarkAsAccessed(read_only_segments),
     stages |-> <<"mark_as_accessed", "read_execution_retdata">>,
     result |-> IF retdata.ok
                THEN CallResult("Ok", "", retdata.values)
                ELSE CallResult("VirtualMachineError", "", <<>>)]

\* A buggy finalizer that marks the ledger before looking at the validation.
FinalizeTail_marks_regardless(v, retdata) ==
    [accessed |-> accessed \o MarkAsAccessed(read_only_segments),
     stages |-> IF v.result # Ok THEN <<>>
                ELSE <<"mark_as_accessed", "read_execution_retdata">>,
     result |-> IF v.result # Ok THEN CallError(v.result)
                ELSE IF retdata.ok THEN CallResult("Ok", "", retdata.values)
                ELSE CallResult("VirtualMachineError", "", <<>>)]

\* finalize_execution, lines 189-200: validate_run(..)? returns its error;
\* otherwise the ledger is marked as accessed, the return data is decoded and
\* the CallInfo is built.
FinalizeTail(v, retdata) ==
    IF v.result # Ok
    THEN [accessed |-> accessed, stages |-> <<>>, result |-> CallError(v.result)]
    ELSE [accessed |-> accessed \o MarkAsAccessed(read_only_segments),
          stages |-> <<"mark_as_accessed", "read_execution_retdata">>,
          result |-> IF retdata.ok
                     THEN CallResult("Ok", "", retdata.values)
                     ELSE CallResult("VirtualMachineError", "", <<>>)]

\* finalize_execution, lines 180-201.
FinalizeExecution ==
    /\ pc = "ran"
    /\ pc' = "returned"
    /\ LET ap == Rel(ExecutionSegment, Len(stack)) IN
       IF \/ ap.off < 2                                   \* vm.get_return_values(2)?
          \/ MemoryAt(Rel(ap.seg, ap.off - 2)) = NoCell
          \/ MemoryAt(Rel(ap.seg, ap.off - 1)) = NoCell
       THEN /\ call_result' = CallResult("MemoryError", "", <<>>)
            /\ stages' = Append(stages, "finalize_execution")
            /\ UNCHANGED <<implicit_args_end, validate_result, validate_checks, accessed>>
       ELSE
       LET retdata_size == MemoryAt(Rel(ap.seg, ap.off - 2))
           retdata_ptr == MemoryAt(Rel(ap.seg, ap.off - 1))
           implicit_args_end_ptr == Rel(ap.seg, ap.off - 2)   \* vm.get_ap().sub_usize(2)?
           v == ValidateRun(implicit_args, implicit_args_end_ptr)
           retdata == ReadExecutionRetdata(retdata_size, retdata_ptr)
           tail == FinalizeTail(v, retdata)
       IN  /\ implicit_args_end' = implicit_args_end_ptr
           /\ validate_result' = v.result
           /\ validate_checks' = v.checks
           /\ accessed' = tail.accessed
           /\ call_result' = tail.result
           /\ stages' = stages \o <<"finalize_execution", "validate_run">> \o tail.stages
    /\ UNCHANGED <<vmVars, handlerVars, implicit_args>>
    /\ UNCHANGED <<ro_result, num_segments, segments, initial_syscall_ptr>>
    /\ UNCHANGED <<trackerVars, deployVars>>
    /\ UNCHANGED <<iterVars, ledgerVars, call_entry_point, call_args, storeVars, treeVars>>

\* The cells a machine may hold below its final allocation pointer when
\* finalize_execution is called on it: the implicit-argument slots, all or
\* the lower ones or all but the lowest, and above them the two return
\* values, or one, or none.
FinalizeStacks(nb) ==
    LET below == FinalStacks(nb) \cup {Tail(st) : st \in FinalStacks(nb) \ {<<>>}}
        above == {<<>>, <<IntCell(2)>>, <<IntCell(2), Rel(CalldataSegment(nb) + 1, 0)>>}
    IN  {b \o a : b \in below, a \in above}

\* finalize_execution is about to be called on a machine that ran a program
\* with nb builtins: the implicit arguments are the assembler's, the ledger
\* holds the calldata segment, the program left a return-data segment.
FinalizeInit ==
    \E nb \in 0..MaxBuiltins :
        /\ builtin_runners = Runners(nb)
        /\ stack \in FinalizeStacks(nb)
        /\ segment_used \in UsedSizes(nb)
        /\ syscall_ptr \in {Rel(SyscallSegment(nb), o) : o \in 0..MaxUsed}
        /\ read_only_segments =
              << [ptr |-> Rel(CalldataSegment(nb), 0), size |-> MaxUsed] >>
        /\ initial_syscall_ptr = Rel(SyscallSegment(nb), 0)
        /\ implicit_args = PrepareImplicitArgs
        /\ implicit_args_end = NoCell
        /\ validate_result = NoResult
        /\ validate_checks = <<>>
        /\ num_segments = CalldataSegment(nb) + 2
        /\ segments = (CalldataSegment(nb) :> [i \in 1..MaxUsed |-> IntCell(254 + i)])
                          @@ (CalldataSegment(nb) + 1 :> [i \in 1..2 |-> IntCell(16 + i)])
        /\ ro_result = NoResult
        /\ pc = "ran"
        /\ accessed = <<>>
        /\ call_result = NoCallResult

(***************************************************************************)
(* A call that writes to storage (papyrus_state_test.rs)                   *)
(***************************************************************************)
\* The storage keys and values of the calls made; the test uses key 1234 and
\* value 18 (lines 46-47).
StorageKeys == {1234, 7}
StorageValues == {18, 300}

\* selector_from_name("test_storage_read_write"), line 51.
StorageSelector == 5

\* The syscall collaborator serving storage_write(key, value) for the call's
\* storage address.
StorageWrite(store, key, value) == [store EXCEPT ![key] = value]

\* The entry point test_storage_read_write run honestly to its end: it takes
\* (key, value) from its calldata, asks the syscall collaborator to write the
\* value at the key and to read the key back, and returns the value read.
RunStorageReadWrite ==
    /\ pc = "assembled"
    /\ Len(call_entry_point.calldata) = 2
    /\ stages' = Append(stages, "run_entry_point")
    /\ pc' = AfterRun(FALSE)
    /\ LET calldata == segments[call_args[4].seg]
           key == FeltToStarkFelt(calldata[1].off)
           value == FeltToStarkFelt(calldata[2].off)
           written == StorageWrite(storage, key, value)
           nb == Len(builtin_runners)
       IN  \E used \in {u \in RunUsedSizes(nb, 1) :
                           u[call_args[4].seg] = Len(calldata)} :
              /\ storage' = written
              /\ stack' = HonestStack(nb, used)
                             \o <<IntCell(1), Rel(num_segments, 0)>>
              /\ segment_used' = used
              /\ segments' = segments @@
                    (num_segments :> <<IntCell(StarkFeltToFelt(written[key]))>>)
              /\ num_segments' = num_segments + 1
              /\ syscall_ptr' = Rel(initial_syscall_ptr.seg, used[initial_syscall_ptr.seg])
    /\ UNCHANGED <<builtin_runners, read_only_segments, initial_syscall_ptr>>
    /\ UNCHANGED <<validateVars, ro_result, accessed, call_result, read_back>>
    /\ UNCHANGED <<trackerVars, deployVars>>
    /\ UNCHANGED <<iterVars, ledgerVars, call_entry_point, call_args, treeVars>>

\* state.get_storage_at(storage_address, key) after the call
\* (papyrus_state_test.rs, line 62).
GetStorageAt(key) ==
    /\ pc = "returned"
    /\ Len(read_back) < 1
    /\ read_back' = Append(read_back, [key |-> key, value |-> storage[key]])
    /\ UNCHANGED storage
    /\ UNCHANGED <<trackerVars, deployVars, vmVars, handlerVars, validateVars, callVars>>
    /\ UNCHANGED <<iterVars, ledgerVars, descrVars, treeVars>>

\* The state store before the call: any earlier contents.
StorageInit ==
    /\ storage \in [StorageKeys -> {0} \cup StorageValues]
    /\ read_back = <<>>

(***************************************************************************)
(* Nested calls: execute_entry_point_call entered again by the driver      *)
(***************************************************************************)
MaxDepth == 2
MaxChildren == 4

\* A call in progress: the stage it has reached, the result it returned, the
\* stages it ran, the results of its children, in invocation order.
NewFrame ==
    [pc |-> "start", result |-> "none", stages |-> <<>>, inner_calls |-> <<>>]

Top == frames[Len(frames)]

\* The frame on top of the stack replaced by f.
WithTop(f) == [frames EXCEPT ![Len(frames)] = f]

\* A stage of the call on top of the stack is entered; it leaves the call at
\* stage `to` with result `result`.
Stepped(frame, stage, to, result) ==
    [frame EXCEPT !.pc = to, !.result = result, !.stages = Append(@, stage)]

\* execute_entry_point_call is entered for the root call.
TreeRootCall ==
    /\ frames = <<>>
    /\ frames' = <<NewFrame>>
    /\ tree_log' = <<[depth |-> 1, event |-> "call"]>>
    /\ UNCHANGED <<trackerVars, deployVars, vmVars, handlerVars, validateVars, callVars>>
    /\ UNCHANGED <<iterVars, ledgerVars, descrVars, storeVars>>

\* execute_entry_point_call, lines 131-137: initialize_execution_context(..)?
TreeBuild(ok) ==
    /\ frames # <<>> /\ Top.pc = "start"
    /\ frames' = WithTop(Stepped(Top, "initialize_execution_context",
                                 IF ok THEN "built" ELSE "returned",
                                 IF ok THEN "none" ELSE "PreExecutionError"))
    /\ tree_log' = Append(tree_log, [depth |-> Len(frames),
                                     event |-> IF ok THEN "built" ELSE "failed"])
    /\ UNCHANGED <<trackerVars, deployVars, vmVars, handlerVars, validateVars, callVars>>
    /\ UNCHANGED <<iterVars, ledgerVars, descrVars, storeVars>>

\* execute_entry_point_call, lines 138-143: prepare_call_arguments(..)?
TreeAssemble(ok) ==
    /\ frames # <<>> /\ Top.pc = "built"
    /\ frames' = WithTop(Stepped(Top, "prepare_call_arguments",
                                 IF ok THEN "assembled" ELSE "returned",
                                 IF ok THEN "none" ELSE "PreExecutionError"))
    /\ tree_log' = Append(tree_log, [depth |-> Len(frames),
                                     event |-> IF ok THEN "assembled" ELSE "failed"])
    /\ UNCHANGED <<trackerVars, deployVars, vmVars, handlerVars, validateVars, callVars>>
    /\ UNCHANGED <<iterVars, ledgerVars, descrVars, storeVars>>

\* execute_entry_point_call, line 145: run_entry_point is entered.
TreeDriverStarts ==
    /\ frames # <<>> /\ Top.pc = "assembled"
    /\ frames' = WithTop(Stepped(Top, "run_entry_point", "running", "none"))
    /\ tree_log' = Append(tree_log, [depth |-> Len(frames), event |-> "running"])
    /\ UNCHANGED <<trackerVars, deployVars, vmVars, handlerVars, validateVars, callVars>>
    /\ UNCHANGED <<iterVars, ledgerVars, descrVars, storeVars>>

\* The running program asks the syscall collaborator to call a contract: the
\* collaborator enters execute_entry_point_call for the child.
TreeCallChild ==
    /\ frames # <<>> /\ Top.pc = "running"
    /\ Len(frames) < MaxDepth
    /\ Len(Top.inner_calls) < MaxChildren
    /\ frames' = Append(frames, NewFrame)
    /\ tree_log' = Append(tree_log, [depth |-> Len(frames) + 1, event |-> "call"])
    /\ UNCHANGED <<trackerVars, deployVars, vmVars, handlerVars, validateVars, callVars>>
    /\ UNCHANGED <<iterVars, ledgerVars, descrVars, storeVars>>

\* The child call returned to the syscall collaborator of its parent: a
\* result record is appended to the parent's nested calls and the parent's
\* run goes on; an error fails the parent's run, and run_entry_point(..)?
\* (lines 145-151) returns it from the parent.
TreeChildReturns ==
    /\ Len(frames) > 1 /\ Top.pc = "returned"
    /\ LET parent == frames[Len(frames) - 1]
           after ==
              IF Top.result = "Ok"
              THEN [parent EXCEPT !.inner_calls = Append(@, "Ok")]
              ELSE [parent EXCEPT !.inner_calls = Append(@, Top.result),
                                  !.pc = AfterRun(TRUE),
                                  !.result = "VirtualMachineExecutionError"]
       IN  frames' = [SubSeq(frames, 1, Len(frames) - 1) EXCEPT ![Len(frames) - 1] = after]
    /\ tree_log' = Append(tree_log,
          [depth |-> Len(frames) - 1,
           event |-> IF Top.result = "Ok" THEN "child returned" ELSE "failed"])
    /\ UNCHANGED <<trackerVars, deployVars, vmVars, handlerVars, validateVars, callVars>>
    /\ UNCHANGED <<iterVars, ledgerVars, descrVars, storeVars>>

\* run_entry_point returns with no child call pending: the run ended or the
\* machine faulted (lines 145-151).
TreeDriverEnds(fault) ==
    /\ frames # <<>> /\ Top.pc = "running"
    /\ frames' = WithTop([Top EXCEPT
                            !.pc = AfterRun(fault),
                            !.result = IF fault THEN "VirtualMachineExecutionError"
                                       ELSE "none"])
    /\ tree_log' = Append(tree_log, [depth |-> Len(frames),
                                     event |-> IF fault THEN "failed" ELSE "ran"])
    /\ UNCHANGED <<trackerVars, deployVars, vmVars, handlerVars, validateVars, callVars>>
    /\ UNCHANGED <<iterVars, ledgerVars, descrVars, storeVars>>

\* The stages finalize_execution runs for each of its outcomes (lines
\* 186-196): the return registers, the validator, the marking and decoding.
FinalizeOutcomes == {"Ok", "MemoryError", "SecurityValidationError", "VirtualMachineError"}

FinalizeStages(outcome) ==
    CASE outcome = "MemoryError" -> <<"finalize_execution">>
      [] outcome = "SecurityValidationError" -> <<"finalize_execution", "validate_run">>
      [] OTHER -> <<"finalize_execution", "validate_run", "mark_as_accessed",
                    "read_execution_retdata">>

\* execute_entry_point_call, lines 153-158: finalize_execution(..)?
TreeFinalize(outcome) ==
    /\ frames # <<>> /\ Top.pc = "ran"
    /\ frames' = WithTop([Top EXCEPT !.pc = "returned", !.result = outcome,
                                     !.stages = @ \o FinalizeStages(outcome)])
    /\ tree_log' = Append(tree_log, [depth |-> Len(frames),
                                     event |-> IF outcome = "Ok" THEN "returned Ok"
                                               ELSE "failed"])
    /\ UNCHANGED <<trackerVars, deployVars, vmVars, handlerVars, validateVars, callVars>>
    /\ UNCHANGED <<iterVars, ledgerVars, descrVars, storeVars>>

\* The variables of the parts not in use.
IterIdle == set_iter = NoIter /\ raw_iter = NoIter
LedgerIdle == returned = <<>>
DescrIdle == call_entry_point = NoCallEntryPoint /\ call_args = <<>> /\ stages = <<>>
StoreIdle == storage = <<>> /\ read_back = <<>>
TreeIdle == frames = <<>> /\ tree_log = <<>>

\* A call of execute_entry_point_call is about to start: no machine yet.
CallInit ==
    /\ ValidateIdle
    /\ MachineIdle
    /\ ro_result = NoResult
    /\ pc = "start"
    /\ segments = <<>>
    /\ accessed = <<>>
    /\ call_result = NoCallResult
    /\ LedgerIdle /\ DescrIdle

(***************************************************************************)
(* Specifications                                                          *)
(***************************************************************************)
InitTracker ==
    /\ TrackerInit /\ IterIdle /\ DeployInit /\ ValidateIdle /\ MachineIdle /\ CallIdle
    /\ LedgerIdle /\ DescrIdle /\ StoreIdle /\ TreeIdle

NextTracker ==
    \/ \E c \in ClassHashes, pcs \in Batches : Insert(c, pcs)
    \/ Iter

SpecTracker == InitTracker /\ [][NextTracker]_vars

InitDeploy ==
    /\ TrackerInit /\ IterIdle /\ DeployInit /\ ValidateIdle /\ MachineIdle /\ CallIdle
    /\ LedgerIdle /\ DescrIdle /\ StoreIdle /\ TreeIdle

NextDeploy ==
    \/ \E a \in Addresses, c \in ClassHashes, ok \in BOOLEAN : ExecuteDeployment(a, c, ok)
    \/ ConstructorReadsOwnClass
    \/ \E outcome \in ConstructorOutcomes : ConstructorReturns(outcome)

SpecDeploy == InitDeploy /\ [][NextDeploy]_vars

InitValidate ==
    /\ TrackerInit /\ IterIdle /\ DeployInit /\ ValidateInit /\ CallIdle
    /\ LedgerIdle /\ DescrIdle /\ StoreIdle /\ TreeIdle

NextValidate == ValidateRunCall

SpecValidate == InitValidate /\ [][NextValidate]_vars

InitReadOnly ==
    /\ TrackerInit /\ IterIdle /\ DeployInit /\ ValidateIdle /\ ReadOnlyInit /\ CallIdle
    /\ LedgerIdle /\ DescrIdle /\ StoreIdle /\ TreeIdle

NextReadOnly ==
    \/ \E n \in 0..MaxData : Allocate(Data(n))
    \/ \E i \in 1..MaxLedger : ExtraWrite(i)
    \/ ReadOnlyValidateCall

SpecReadOnly == InitReadOnly /\ [][NextReadOnly]_vars

Init == TrackerInit /\ IterIdle /\ DeployInit /\ CallInit /\ StoreIdle /\ TreeIdle

Next ==
    \/ \E nb \in 0..MaxBuiltins, outcome \in BuilderOutcomes :
          InitializeExecutionContext(nb, outcome)
    \/ \E selector \in Selectors, n \in 0..MaxData, ok \in BOOLEAN :
          PrepareCallArguments(selector, Calldata(n), ok)
    \/ \E fault \in BOOLEAN : RunEntryPoint(fault)
    \/ FinalizeExecution

Spec == Init /\ [][Next]_vars

InitStorage == TrackerInit /\ IterIdle /\ DeployInit /\ CallInit /\ StorageInit /\ TreeIdle

NextStorage ==
    \/ \E nb \in 0..MaxBuiltins, outcome \in BuilderOutcomes :
          InitializeExecutionContext(nb, outcome)
    \/ \E key \in StorageKeys, value \in StorageValues, ok \in BOOLEAN :
          PrepareCallArguments(StorageSelector, <<key, value>>, ok)
    \/ RunStorageReadWrite
    \/ FinalizeExecution
    \/ \E key \in StorageKeys : GetStorageAt(key)

SpecStorage == InitStorage /\ [][NextStorage]_vars

InitTree ==
    /\ TrackerInit /\ IterIdle /\ DeployInit /\ ValidateIdle /\ MachineIdle /\ CallIdle
    /\ LedgerIdle /\ DescrIdle /\ StoreIdle /\ TreeIdle

NextTree ==
    \/ TreeRootCall
    \/ \E ok \in BOOLEAN : TreeBuild(ok)
    \/ \E ok \in BOOLEAN : TreeAssemble(ok)
    \/ TreeDriverStarts
    \/ TreeCallChild
    \/ TreeChildReturns
    \/ \E fault \in BOOLEAN : TreeDriverEnds(fault)
    \/ \E outcome \in FinalizeOutcomes : TreeFinalize(outcome)

SpecTree == InitTree /\ [][NextTree]_vars

InitFinalize ==
    /\ TrackerInit /\ IterIdle /\ DeployInit /\ FinalizeInit
    /\ LedgerIdle /\ DescrIdle /\ StoreIdle /\ TreeIdle

NextFinalize == FinalizeExecution

SpecFinalize == InitFinalize /\ [][NextFinalize]_vars

(***************************************************************************)
(* Claims                                                                  *)
(***************************************************************************)
CallsFor(c) == {i \in 1..Len(calls) : calls[i].class_hash = c}

\* The batches inserted for class c, in call order.
RECURSIVE BatchesFor(_, _)
BatchesFor(c, n) ==
    IF n = 0 THEN <<>>
    ELSE IF calls[n].class_hash = c
         THEN Append(BatchesFor(c, n - 1), calls[n].pcs)
         ELSE BatchesFor(c, n - 1)

\* C8: in the deduplicated-set tracker the collection held for a class is
\* exactly the union of all batches inserted for that class (a class is
\* present iff insert was called for it), so it holds each program counter
\* once and none that was inserted only for another class.
C8_SetIsUnionOfBatches ==
    /\ DOMAIN set_pcs = {c \in ClassHashes : CallsFor(c) # {}}
    /\ \A c \in DOMAIN set_pcs :
          set_pcs[c] = UNION {Range(calls[i].pcs) : i \in CallsFor(c)}

C8_Witness ==
    /\ calls = << [class_hash |-> "classA", pcs |-> <<10, 20>>],
                  [class_hash |-> "classA", pcs |-> <<20, 30>>] >>
    /\ set_pcs["classA"] = {10, 20, 30}

\* C9: in the raw-list tracker the collection held for a class has exactly
\* one entry per insert call made for that class, in call order, each entry
\* being the batch as passed (duplicates and order kept); inserts for other
\* classes add nothing to it.
C9_RawIsCallLog ==
    /\ DOMAIN raw_pcs = {c \in ClassHashes : CallsFor(c) # {}}
    /\ \A c \in DOMAIN raw_pcs : raw_pcs[c] = BatchesFor(c, Len(calls))

C9_Witness ==
    /\ calls = << [class_hash |-> "classA", pcs |-> <<20, 20>>],
                  [class_hash |-> "classB", pcs |-> <<30, 10>>] >>
    /\ raw_pcs["classA"] = << <<20, 20>> >>
    /\ raw_pcs["classB"] = << <<30, 10>> >>

\* C10: the address-to-class binding is in the state store whenever the
\* constructor is running, every read the constructor makes of its own
\* binding returns the deployed class, and a failed registration returns
\* without the constructor having run.
C10_BindingBeforeConstructor ==
    /\ deploy_pc = "constructor" =>
          class_hash_at[deploy_args.address] = deploy_args.class_hash
    /\ \A i \in 1..Len(observed) : observed[i] = deploy_args.class_hash
    /\ deploy_result = "Err(StateError)" => (deploy_pc = "returned" /\ observed = <<>>)

C10_Witness ==
    /\ deploy_pc = "constructor"
    /\ observed = <<deploy_args.class_hash>>
    /\ deploy_args.class_hash = "classB"
(***************************************************************************)
(* Claims about validate_run, stated on its inputs                         *)
(***************************************************************************)
Validated == validate_result # NoResult

\* The pointer reached after walking back over all builtin final stacks.
Walked == BuiltinsFinalStack(implicit_args_end, Len(builtin_runners))
StartDefined == Walked.ok /\ Walked.ptr.off > 0
ArgsStart == Rel(Walked.ptr.seg, Walked.ptr.off - 1)
EndCell == MemoryAt(ArgsStart)

\* Each check on its own: whether the final state passes it.
Passes(i) ==
    CASE i = 1 -> Walked.ok
      [] i = 2 -> /\ StartDefined
                  /\ ArgsStart.off + Len(implicit_args) = implicit_args_end.off
      [] i = 3 -> implicit_args[1].kind = "rel" /\ implicit_args[1].off = 0
      [] i = 4 -> /\ StartDefined
                  /\ EndCell.kind = "rel"
                  /\ implicit_args[1].kind = "rel"
                  /\ EndCell.seg = implicit_args[1].seg
                  /\ EndCell.off = implicit_args[1].off + segment_used[implicit_args[1].seg]
      [] i = 5 -> StartDefined /\ EndCell = syscall_ptr
      [] i = 6 -> \A j \in 1..Len(read_only_segments) :
                     read_only_segments[j].size
                        = segment_used[read_only_segments[j].ptr.seg]

Failing == {i \in 1..6 : ~Passes(i)}
FirstFailing == CHOOSE i \in Failing : \A j \in Failing : i <= j

\* C1: validate_run evaluates the six checks in the stated order and stops at
\* the first one that fails: the checks evaluated are exactly the checks up
\* to the earliest failing one, and a labelled error carries that check's
\* name; it succeeds only when all six were evaluated and pass.
C1_ChecksInOrder ==
    Validated =>
        /\ (Failing = {}) <=> (validate_result = Ok)
        /\ Failing = {} => validate_checks = CheckOrder
        /\ Failing # {} =>
              /\ validate_checks = Checked(FirstFailing)
              /\ validate_result.kind = "SecurityValidationError" =>
                    validate_result.label = CheckOrder[FirstFailing]

C1_Witness ==
    /\ Validated
    /\ Failing = {2, 3, 5, 6}
    /\ validate_result = SecurityValidationError("Implicit arguments' segments")
    /\ Len(builtin_runners) = 2

\* C2: once the builtin final stacks were walked, a start pointer that does
\* not lie Len(implicit_args) slots below implicit_args_end makes validate_run
\* fail with "Implicit arguments' segments"; and a count of implicit
\* arguments that differs from the number of slots the final state holds
\* never validates.
C2_ImplicitArgsCountChecked ==
    Validated =>
        /\ (StartDefined /\ ArgsStart.off + Len(implicit_args) # implicit_args_end.off)
              => validate_result = SecurityValidationError("Implicit arguments' segments")
        /\ Len(implicit_args) # Len(builtin_runners) + 1 => validate_result # Ok

C2_Witness ==
    /\ Validated
    /\ StartDefined
    /\ Len(implicit_args) = Len(builtin_runners) + 2
    /\ Passes(3) /\ Passes(4) /\ Passes(5) /\ Passes(6)
    /\ validate_result = SecurityValidationError("Implicit arguments' segments")

\* C3: when the earlier checks pass and the first implicit argument is a
\* pointer, validate_run fails with "Syscall segment start" exactly when that
\* pointer's offset is not zero.
C3_SyscallStartOffsetZero ==
    (Validated /\ Passes(1) /\ Passes(2) /\ implicit_args[1].kind = "rel") =>
        ((implicit_args[1].off # 0)
            <=> validate_result = SecurityValidationError("Syscall segment start"))

C3_Witness ==
    /\ Validated /\ Passes(1) /\ Passes(2)
    /\ implicit_args[1].kind = "rel" /\ implicit_args[1].off = 1
    /\ EndCell = Rel(implicit_args[1].seg, 1 + segment_used[implicit_args[1].seg])
    /\ validate_result = SecurityValidationError("Syscall segment start")

\* C4: when the earlier checks pass and the slot of the first implicit
\* argument holds a pointer, validate_run fails with "Syscall segment size"
\* exactly when that pointer is not the syscall start pointer plus the used
\* size of the syscall segment.
C4_SyscallSizeMatchesUsed ==
    (Validated /\ Passes(1) /\ Passes(2) /\ Passes(3) /\ EndCell.kind = "rel") =>
        ((EndCell # Rel(implicit_args[1].seg, segment_used[implicit_args[1].seg]))
            <=> validate_result = SecurityValidationError("Syscall segment size"))

C4_Witness ==
    /\ Validated /\ Passes(1) /\ Passes(2) /\ Passes(3)
    /\ EndCell.kind = "rel" /\ EndCell.seg = implicit_args[1].seg
    /\ EndCell.off < segment_used[implicit_args[1].seg]
    /\ validate_result = SecurityValidationError("Syscall segment size")

\* C6: every failure of one of the six checks (a malformed builtin final
\* stack and a rejection by the syscall handler included) is a security
\* validation error labelled with the name of the failing check.  Failures of
\* the pointer arithmetic and of the reads between the checks are left aside.
C6_EveryFailureLabelled ==
    (/\ Validated
     /\ validate_result # Ok
     /\ validate_result.kind \notin {"MathError", "VirtualMachineError"}) =>
        /\ validate_result.kind = "SecurityValidationError"
        /\ validate_result.label = CheckOrder[Len(validate_checks)]
\* C5: read-only segment validation succeeds exactly when every ledger entry's
\* segment has a used size equal to the entry's declared size, and otherwise
\* fails with the security validation error "Read-only segments".
C5_ReadOnlyValidIffSizesEqual ==
    ro_result # NoResult =>
        /\ ro_result = Ok <=>
              \A i \in 1..Len(read_only_segments) :
                 segment_used[read_only_segments[i].ptr.seg] = read_only_segments[i].size
        /\ ro_result # Ok => ro_result = SecurityValidationError("Read-only segments")

\* Calldata of length 3 followed by one extra write is rejected.
C5_Witness ==
    /\ Len(read_only_segments) = 1
    /\ read_only_segments[1].size = 3
    /\ segment_used[read_only_segments[1].ptr.seg] = 4
    /\ ro_result = SecurityValidationError("Read-only segments")
(***************************************************************************)
(* Claims about execute_entry_point_call                                   *)
(***************************************************************************)
\* The return registers of the final state: the two cells below ap.
RetdataSizeCell == MemoryAt(Rel(ExecutionSegment, Len(stack) - 2))
RetdataPtrCell == MemoryAt(Rel(ExecutionSegment, Len(stack) - 1))
RetdataCell(i) == MemoryAt(Rel(RetdataPtrCell.seg, RetdataPtrCell.off + i - 1))

\* A valid call: the run ended, the final state passes every check, and the
\* return registers hold a length N and a pointer to N integer cells.
ValidCall ==
    /\ pc = "returned"
    /\ Validated
    /\ Failing = {}
    /\ RetdataSizeCell.kind = "int"
    /\ RetdataPtrCell.kind = "rel"
    /\ \A i \in 1..RetdataSizeCell.off : RetdataCell(i).kind = "int"

\* C7: for a valid call the result record is produced and its return data is
\* exactly the N values stored from the return-data pointer, N being the
\* length held in the return registers.
C7_RetdataMatchesRegisters ==
    ValidCall =>
        /\ call_result.kind = "Ok"
        /\ call_result.retdata = [i \in 1..RetdataSizeCell.off |-> RetdataCell(i).off]

\* C11: prepare_call_arguments returns an input vector of exactly four
\* elements, in this order: the selector value, the implicit arguments, the
\* calldata length, a pointer to a new read-only segment holding the calldata;
\* the implicit arguments are the syscall start pointer followed by the
\* initial stack of every builtin runner in enumeration order, and the
\* sequence returned for the validator is the one placed in the vector.
C11_InputVectorLayout ==
    call_args # <<>> =>
        /\ Len(call_args) = 4
        /\ call_args[1] = IntCell(call_entry_point.entry_point_selector)
        /\ call_args[2] = implicit_args
        /\ Len(call_args[2]) = 1 + Len(builtin_runners)
        /\ call_args[2][1] = initial_syscall_ptr
        /\ \A i \in 1..Len(builtin_runners) :
              call_args[2][i + 1] = Rel(builtin_runners[i].base, 0)
        /\ call_args[3] = IntCell(Len(call_entry_point.calldata))
        /\ call_args[4].kind = "rel" /\ call_args[4].off = 0
        /\ call_args[4].seg > initial_syscall_ptr.seg
        /\ segments[call_args[4].seg] =
              [i \in 1..Len(call_entry_point.calldata) |->
                  IntCell(call_entry_point.calldata[i])]
        /\ read_only_segments[1] =
              [ptr |-> call_args[4], size |-> Len(call_entry_point.calldata)]

C11_Witness ==
    /\ pc = "assembled"
    /\ Len(builtin_runners) = 2
    /\ call_entry_point = [entry_point_selector |-> 300, calldata |-> <<255, 256, 257>>]
    /\ call_args[2] = <<Rel(4, 0), Rel(2, 0), Rel(3, 0)>>
    /\ call_args[4] = Rel(5, 0)

\* C12: for an entry point that writes a value v to storage key k of its own
\* storage address and returns it, a successful call yields a result record
\* whose return data is [v], and a later read of key k through the same state
\* handle returns v (the test: k = 1234, v = 18).
C12_StorageWriteReturnsValue ==
    (pc = "returned" /\ call_result.kind = "Ok") =>
        /\ call_result.retdata = <<call_entry_point.calldata[2]>>
        /\ storage[call_entry_point.calldata[1]] = call_entry_point.calldata[2]
        /\ \A i \in 1..Len(read_back) :
              read_back[i].key = call_entry_point.calldata[1] =>
                 read_back[i].value = call_entry_point.calldata[2]

C12_Witness ==
    /\ call_entry_point.calldata = <<1234, 18>>
    /\ call_result = CallResult("Ok", "", <<18>>)
    /\ read_back = << [key |-> 1234, value |-> 18] >>

\* The call returned an error of the builder (lines 62-71).
BuilderError ==
    /\ call_result.kind = "PreExecutionError"
    /\ call_result.label \in BuilderOutcomes

\* The machine has no memory: no segment was allocated, nothing was written.
NoMachineMemory ==
    /\ num_segments = 0
    /\ segments = <<>>
    /\ segment_used = <<>>
    /\ read_only_segments = <<>>

\* C13 as stated: every pre-execution error, whether returned by the builder
\* or by the assembler, is returned before any machine memory segment has
\* been allocated or written.
C13_EveryPreExecutionErrorBeforeMemory ==
    call_result.kind = "PreExecutionError" => NoMachineMemory

\* C13, amended: every error of the builder (unknown class, unknown or
\* ambiguous selector, malformed program, runner set-up) is returned before
\* any machine memory segment has been allocated or written, with no later
\* stage run, and building the execution context leaves the state store as
\* it was.  (An error of the assembler is returned after the segments were
\* allocated.)
C13_BuilderErrorsBeforeMemory ==
    /\ [](BuilderError =>
            (NoMachineMemory /\ stages = <<"initialize_execution_context">>))
    /\ [][pc = "start" => (storage' = storage /\ class_hash_at' = class_hash_at)]_vars

C13_Witness ==
    /\ call_result = CallResult("PreExecutionError", "DuplicateEntryPoint", <<>>)
    /\ NoMachineMemory
    /\ storage[1234] = 18

\* The stages of a call in the order of the code: the builder, the assembler,
\* the driver, then finalize_execution reading the return registers, the
\* validator, and the finalizer's marking and decoding.
StageOrder ==
    << "initialize_execution_context", "prepare_call_arguments", "run_entry_point",
       "finalize_execution", "validate_run", "mark_as_accessed",
       "read_execution_retdata" >>

StagesUpTo(n) == SubSeq(StageOrder, 1, n)

\* C14: a call runs its stages in the order builder, assembler, driver,
\* validator, finalizer, each at most once; when a stage fails the call
\* returns that error, no later stage runs and no result record is produced:
\* a machine fault is never followed by validation or result extraction, and
\* a failed validator check is never turned into a successful result.
C14_StagesInOrderStopAtFailure ==
    /\ [](\E n \in 0..Len(StageOrder) : stages = StagesUpTo(n))
    /\ []((call_result # NoCallResult) <=> (pc = "returned"))
    /\ [](call_result.kind = "Ok" => (stages = StageOrder /\ validate_result = Ok))
    /\ [](call_result.kind = "PreExecutionError" =>
             (stages \in {StagesUpTo(1), StagesUpTo(2)} /\ ~Validated))
    /\ [](call_result.kind = "VirtualMachineExecutionError" =>
             (stages = StagesUpTo(3) /\ ~Validated /\ accessed = <<>>))
    /\ []((Validated /\ validate_result # Ok) =>
             (call_result = CallError(validate_result) /\ stages = StagesUpTo(5)))
    /\ [][call_result # NoCallResult => stages' = stages]_vars

C14_Witness ==
    /\ validate_result = SecurityValidationError("Syscall segment size")
    /\ call_result = CallError(validate_result)
    /\ stages = StagesUpTo(5)
    /\ pc = "returned"

\* A child of the call f returned an error.
ChildFailed(f) == \E j \in 1..Len(f.inner_calls) : f.inner_calls[j] # "Ok"

\* Some call of the tree failed.
SomeCallFailed == \E k \in 1..Len(tree_log) : tree_log[k].event = "failed"

\* C15: in a call tree a parent does not proceed until its child has
\* completed (while a child is in progress the parent stays inside its
\* driver, unchanged), and when a child fails the parent's driver fails too:
\* the parent runs neither its validator nor its finalizer, produces no
\* result record, and the failure reaches the root of the tree.
C15_ChildFailureAbortsParent ==
    /\ [](\A i \in 1..(Len(frames) - 1) : frames[i].pc = "running")
    /\ [][\A i \in 1..(Len(frames) - 1) :
             Len(frames') >= Len(frames) => frames'[i] = frames[i]]_vars
    /\ [](\A i \in 1..Len(frames) :
             ChildFailed(frames[i]) =>
                /\ frames[i].pc = "returned"
                /\ frames[i].result = "VirtualMachineExecutionError"
                /\ frames[i].stages = StagesUpTo(3)
                /\ \A j \in 1..(Len(frames[i].inner_calls) - 1) :
                      frames[i].inner_calls[j] = "Ok")
    /\ []((Len(frames) = 1 /\ SomeCallFailed) =>
             (frames[1].pc = "returned" /\ frames[1].result # "Ok"))

C15_Witness ==
    /\ Len(frames) = 1
    /\ frames[1].inner_calls = <<"Ok", "SecurityValidationError">>
    /\ frames[1].result = "VirtualMachineExecutionError"
    /\ frames[1].stages = StagesUpTo(3)

\* C16: when the first four checks pass, the end pointer read from machine
\* memory is what the syscall handler is asked to verify; if it is not the
\* pointer the handler last advanced to, validate_run fails with the security
\* validation error "Syscall segment end" and the read-only segments are not
\* validated; otherwise validation goes on to the read-only segments.
C16_SyscallEndDelegated ==
    (Validated /\ Passes(1) /\ Passes(2) /\ Passes(3) /\ Passes(4)) =>
        /\ (EndCell # syscall_ptr)
              <=> (validate_result = SecurityValidationError("Syscall segment end"))
        /\ (EndCell # syscall_ptr) => validate_checks = Checked(5)
        /\ (EndCell = syscall_ptr) =>
              /\ validate_checks = Checked(6)
              /\ validate_result = ReadOnlySegments_validate(read_only_segments)

C16_Witness ==
    /\ Validated /\ Passes(1) /\ Passes(2) /\ Passes(3) /\ Passes(4)
    /\ EndCell # syscall_ptr
    /\ ~Passes(6)
    /\ validate_result = SecurityValidationError("Syscall segment end")
    /\ validate_checks = Checked(5)
    /\ Len(builtin_runners) = 1

\* C17: after any sequence of successful allocate calls the ledger holds one
\* entry per allocation, in allocation order, each entry being (the returned
\* pointer, the length of the data given); every returned pointer is at
\* offset zero of a segment that did not exist before the call, so no two
\* allocations share a segment; the entry is in the ledger when the pointer
\* is returned.
C17_LedgerIsAllocationLog ==
    /\ read_only_segments =
          [i \in 1..Len(returned) |-> [ptr |-> returned[i].ptr, size |-> returned[i].len]]
    /\ \A i \in 1..Len(returned) :
          /\ returned[i].ptr.kind = "rel"
          /\ returned[i].ptr.off = 0
          /\ returned[i].ptr.seg >= returned[i].segments_before
          /\ returned[i].ptr.seg < num_segments
    /\ \A i, j \in 1..Len(returned) :
          i # j => returned[i].ptr.seg # returned[j].ptr.seg

C17_Witness ==
    /\ Len(returned) = 2
    /\ read_only_segments =
          << [ptr |-> Rel(3, 0), size |-> 3], [ptr |-> Rel(4, 0), size |-> 0] >>

\* How many times x occurs in the sequence q.
Occurrences(q, x) == Cardinality({i \in 1..Len(q) : q[i] = x})

DecodingReached == pc = "returned" /\ validate_result = Ok

\* Some cell of the return-data range (the cells from the return-data
\* pointer, as many as the length register says) is unset or holds a pointer.
BadRetdataCell ==
    /\ RetdataSizeCell.kind = "int"
    /\ \E i \in 1..RetdataSizeCell.off : RetdataCell(i).kind # "int"

\* C19: decoding the return data fails, and the call is rejected with no
\* result record, whenever the return-data length register holds a pointer
\* or some cell of the return-data range is unset or holds a pointer; it
\* succeeds only when every cell of the range is an integer cell.
C19_DecodingRejectsBadCells ==
    DecodingReached =>
        /\ RetdataSizeCell.kind = "rel" => call_result.kind # "Ok"
        /\ BadRetdataCell => call_result.kind # "Ok"
        /\ call_result.kind = "Ok" =>
              /\ RetdataSizeCell.kind = "int"
              /\ \A i \in 1..RetdataSizeCell.off : RetdataCell(i).kind = "int"

\* The classes insert was called for.
InsertedClasses == {c \in ClassHashes : CallsFor(c) # {}}

\* The number of pairs an iterator yielded for class c.
PairsFor(it, c) ==
    LET ps == {p \in DOMAIN it.yields : p.class_hash = c}
        RECURSIVE Sum(_)
        Sum(S) == IF S = {} THEN 0
                  ELSE LET p == CHOOSE q \in S : TRUE IN it.yields[p] + Sum(S \ {p})
    IN  Sum(ps)

\* C20: iterating a tracker yields (class, collection) pairs that cover every
\* class insert was called for (also with an empty batch) and, per class,
\* exactly the program counters inserted for it: the set shape yields one
\* pair per class with each program counter once, the raw shape one pair per
\* insert call, so that a class inserted n times appears in n pairs.
C20_IterYieldsInsertedPairs ==
    set_iter.alive =>
        /\ {p.class_hash : p \in DOMAIN set_iter.yields} = InsertedClasses
        /\ {p.class_hash : p \in DOMAIN raw_iter.yields} = InsertedClasses
        /\ \A c \in InsertedClasses : PairsFor(set_iter, c) = 1
        /\ \A p \in DOMAIN set_iter.yields :
              /\ DOMAIN p.pcs = UNION {Range(calls[i].pcs) : i \in CallsFor(p.class_hash)}
              /\ \A x \in DOMAIN p.pcs : p.pcs[x] = 1
        /\ \A c \in InsertedClasses : PairsFor(raw_iter, c) = Cardinality(CallsFor(c))
        /\ \A p \in DOMAIN raw_iter.yields :
              raw_iter.yields[p] =
                 Cardinality({i \in CallsFor(p.class_hash) : calls[i].pcs = p.pcs})

C20_Witness ==
    /\ set_iter.alive
    /\ calls = << [class_hash |-> "classA", pcs |-> <<10, 10>>],
                  [class_hash |-> "classA", pcs |-> <<10, 10>>] >>
    /\ PairsFor(set_iter, "classA") = 1
    /\ PairsFor(raw_iter, "classA") = 2

\* The set-shaped tracker after the calls numbered order[1], order[2], ...
\* were made on an empty one.
RECURSIVE SetAfter(_, _)
SetAfter(order, n) ==
    IF n = 0 THEN <<>>
    ELSE VisitedPcsSet_insert(SetAfter(order, n - 1),
                              calls[order[n]].class_hash, calls[order[n]].pcs)

\* The orders in which the calls made so far can be replayed.
CallOrders ==
    {o \in [1..Len(calls) -> 1..Len(calls)] : Range(o) = 1..Len(calls)}

\* C21: driven by the same inserts, the two tracker shapes record the same
\* classes and, for every class, the set held by the set shape is the union
\* of the elements of the entries held by the raw shape; the set shape's
\* state is the same for every order of the inserts made, and making any of
\* them once more changes nothing.
C21_ShapesStayRelated ==
    /\ DOMAIN set_pcs = DOMAIN raw_pcs
    /\ \A c \in DOMAIN set_pcs \cap DOMAIN raw_pcs :
          set_pcs[c] = UNION {Range(raw_pcs[c][i]) : i \in 1..Len(raw_pcs[c])}
    /\ \A o \in CallOrders : SetAfter(o, Len(calls)) = set_pcs
    /\ \A i \in 1..Len(calls) :
          VisitedPcsSet_insert(set_pcs, calls[i].class_hash, calls[i].pcs) = set_pcs

C21_Witness ==
    /\ calls = << [class_hash |-> "classB", pcs |-> <<>>],
                  [class_hash |-> "classA", pcs |-> <<30, 10>>] >>
    /\ DOMAIN raw_pcs = {"classA", "classB"}
    /\ raw_pcs["classB"] = << <<>> >>
    /\ set_pcs["classB"] = {}
    /\ set_pcs["classA"] = {10, 30}
    /\ SetAfter(<<2, 1>>, 2) = set_pcs

\* The call has its argument vector: the builder and the assembler returned Ok.
Assembled == implicit_args # <<>>

\* The segments other than the one the builder added for the syscalls: the
\* program's, the execution stack's, the builtin runners', the ledger's and
\* the ones the program wrote.
OtherSegments ==
    (0..ExecutionSegment)
        \cup {builtin_runners[i].base : i \in 1..Len(builtin_runners)}
        \cup {read_only_segments[i].ptr.seg : i \in 1..Len(read_only_segments)}
        \cup DOMAIN segments

\* C22: in every call the first implicit argument handed to validate_run is
\* the pointer the builder got from add_memory_segment: at offset 0 of a
\* segment of its own, and never changed from the assembly to the return,
\* whatever the program left; so validate_run never returns the
\* "Syscall segment start" error.
C22_SyscallStartNeverFails ==
    /\ [](Assembled =>
            /\ implicit_args[1] = initial_syscall_ptr
            /\ initial_syscall_ptr = Rel(SyscallSegment(Len(builtin_runners)), 0)
            /\ initial_syscall_ptr.seg < num_segments
            /\ initial_syscall_ptr.seg \notin OtherSegments)
    /\ [](validate_result # SecurityValidationError("Syscall segment start"))
    /\ [][Assembled => /\ implicit_args' = implicit_args
                       /\ initial_syscall_ptr' = initial_syscall_ptr]_vars

C22_Witness ==
    /\ pc = "returned"
    /\ Len(builtin_runners) = 2
    /\ implicit_args = <<Rel(4, 0), Rel(2, 0), Rel(3, 0)>>
    /\ "Syscall segment start" \in Range(validate_checks)
    /\ validate_result = SecurityValidationError("Syscall segment size")
    /\ stack[1] = Rel(4, 1)

\* The constructor of the last deployment returned an error.
ConstructorFailed == constructor_result \notin {"none", "Ok(CallInfo)"}

\* C23: execute_deployment takes nothing back: when the constructor's
\* pipeline fails, at whichever stage, the state handle holds the same
\* bindings as when the constructor returned, the binding of the deployed
\* address among them, and the result of execute_deployment is the
\* constructor's error as it was returned.
C23_NoRollbackOnFailure ==
    /\ [](ConstructorFailed =>
            /\ deploy_pc = "returned"
            /\ deploy_result = constructor_result
            /\ class_hash_at[deploy_args.address] = deploy_args.class_hash)
    /\ [][deploy_pc = "constructor" /\ deploy_pc' = "returned" =>
             class_hash_at' = class_hash_at]_vars

C23_Witness ==
    /\ constructor_result = "Err(PostExecutionError)"
    /\ deploy_result = "Err(PostExecutionError)"
    /\ deploy_args = [address |-> "addr2", class_hash |-> "classA"]
    /\ class_hash_at["addr2"] = "classA"

\* finalize_execution returned.
Finalized == pc = "returned" /\ "finalize_execution" \in Range(stages)

\* The final allocation pointer is too low for two return values.
ApBelowTwo == Len(stack) < 2

\* The two return values are there, the walk back over the builtins'
\* final stacks succeeds and ends at offset 0.
BoundaryAtZero ==
    /\ Len(stack) >= 2
    /\ LET walk == BuiltinsFinalStack(Rel(ExecutionSegment, Len(stack) - 2),
                                      Len(builtin_runners))
       IN  walk.ok /\ walk.ptr.off = 0

\* The two cells below the final allocation pointer were written.
ReturnValuesSet ==
    /\ Len(stack) >= 2
    /\ stack[Len(stack) - 1] # NoCell
    /\ stack[Len(stack)] # NoCell

\* The errors of the machine's pointer arithmetic and memory reads, which `?`
\* converts and which carry no label.
PointerErrors == {"MemoryError", "MathError"}

C24_WitnessShortStack ==
    /\ Finalized
    /\ stack = <<IntCell(2)>>
    /\ call_result = CallResult("MemoryError", "", <<>>)
====
